---- MODULE Spec2Model ----
(***************************************************************************)
(* A state-machine model of the DEM inversion engine (dempy/dem.py), of   *)
(* the hierarchical model container (torchkf/dem_hgm.py) and of the        *)
(* prediction errors (torchkf/dem_de.py).                                  *)
(*                                                                         *)
(* Four specifications are given:                                          *)
(*   SpecRun   calls of DEMInversion.run / DEMInversion.generate on a      *)
(*             prepared hierarchy, followed statement block by block;      *)
(*   SpecPrep  HierarchicalGaussianModel.prepare_models on a list of       *)
(*             user-written GaussianModel descriptors;                     *)
(*   SpecErr   the assembly of the prediction errors in                    *)
(*             dem_eval_err_diff, for every embedding order;               *)
(*   SpecEmbed DEMInversion.generalized_coordinates, timestep by timestep. *)
(*                                                                         *)
(* Floating-point quantities whose value the control flow only compares    *)
(* (free energy Li, free action Ai) are drawn from small sets; NaN and     *)
(* -inf are kept as distinct values with IEEE comparison semantics.        *)
(* Temperatures te, tm move in steps of 1/2 and are stored doubled.        *)
(***************************************************************************)
EXTENDS Integers, Sequences, FiniteSets, TLC

\* ------------------------------------------------------------------ bounds
\* largest number of outer (E) iterations a call may request
MaxNE == 3
\* the one longer E budget, tried on a single model with the other arguments
\* at their smallest: enough for five rejections in a row and one more
LongNE == 7
\* largest number of M iterations a call may request
MaxNM == 3
\* largest finite free-energy value an iteration may evaluate (0..MaxL)
MaxL == 1

\* ------------------------------------------------- special float values
\* np.nan: the "not yet computed" sentinel of the traces; compares false
NaN == -2
\* -np.inf: the initial value of Fi; below every finite value
NegInf == -1
\* Python's None for an absent integer-valued field or argument
None == -3

\* float comparison a > b (false when either side is NaN)
GT(a, b) == a # NaN /\ b # NaN /\ a > b

Min(a, b) == IF a < b THEN a ELSE b

RECURSIVE SumSeq(_)
SumSeq(s) == IF s = <<>> THEN 0 ELSE Head(s) + SumSeq(Tail(s))

\* ------------------------------------------------------------- variables
VARIABLES
  M,        \* the hierarchical model: a sequence of level records
  engine,   \* DEMInversion's derived counts (nl, nv, nx, ny, nc)
  pc,       \* position of the current call
  args,     \* arguments of the current call
  F, A,     \* free-energy / free-action traces of the current call
  Fi,       \* best accepted free energy so far
  Li, Ai,   \* free energy / action evaluated in the current outer iteration
  te, tm,   \* temperatures, doubled (te = 2 * te_code)
  iE, iM,   \* loop indices
  nE, nM,   \* iteration budgets as the loops see them
  nh, nf,   \* number of hyperparameters / free parameters
  qp, qh, pp, \* moments of the parameters and hyperparameters, parameter priors
  B,        \* the saved expansion point (checkpoint)
  dp,       \* the parameter step of the last outer iteration
  trail,    \* what the current call has done so far (bookkeeping)
  i,        \* prepare_models: the level being processed (1-based)
  vRows,    \* prepare_models: number of rows of the running cause vector v
  qU, qE,   \* run: the saved states and prediction errors, one per timestep
  ph,       \* run: the prior moments of the hyperparameters
  Qlib,     \* run: the library Q of precision components
  gen,      \* generate: its local variables
  gc,       \* generalized_coordinates: its local variables
  de        \* dem_eval_err_diff: its local variables

moments == <<qp, qh, pp, B, dp>>
runLocals == <<F, A, Fi, Li, Ai, te, tm, iE, iM, nE, nM, nh, nf, moments>>
history == <<qU, qE>>
library == <<ph, Qlib>>
frames == <<gen, gc, de>>
vars == <<M, engine, pc, args, F, A, Fi, Li, Ai, te, tm, iE, iM, nE, nM, nh, nf,
          qp, qh, pp, B, dp, trail, i, vRows, qU, qE, ph, Qlib, gen, gc, de>>

\* ---------------------------------------------------------- model levels
\* The shape of an array is a tuple of sizes: <<>> for a 0-d array, <<k>> for
\* a vector, <<r, c>> for a matrix; NoShape stands for an absent array and
\* NoList for an absent list of arrays.
NoShape == <<None>>
NoList == <<NoShape>>
NoPC == <<None>>

\* an absent prior precision (xP, vP): no shape, no values
NoPrecision == [shape |-> NoShape, val |-> "None"]

\* the shape of a k-by-k matrix
Square(k) == <<k, k>>

\* A GaussianModel as its constructor stores it.  Maps are recorded by kind:
\* "None", "native" (a function of the user), "symbolic" (a symbolic
\* declaration), "compiled" (a compiled symbolic declaration), "zero" (the
\* constant map of a static level).  Arrays by what the code reads from them:
\*   x, v       number of rows (None when absent)
\*   pE         the shape (NoShape when absent)
\*   pC         the values of a scalar or vector, the diagonal of a matrix
\*              (NoPC when absent), and pCs its shape
\*   Q, R       the shapes of the components in the list (NoList when absent)
\*   xP, vP     the shape, and what the values are: "user" (as given),
\*              "identity" (a multiple of the identity), "diag" (a vector put
\*              on the diagonal), "zeros"
\*   hE, gE     the shape (NoShape when absent)
\*   hC, gC     the shape and what the values are, as for xP
GaussianModel(f, fsymb, g, gsymb, m, n, l, p, x, v, pE, pC, Q, R) ==
  [f |-> f, fsymb |-> fsymb, g |-> g, gsymb |-> gsymb,
   m |-> m, n |-> n, l |-> l, p |-> p, nP |-> None,
   x |-> x, v |-> v, pE |-> pE, pC |-> pC,
   pCs |-> IF pC = NoPC THEN NoShape ELSE Square(Len(pC)),
   Q |-> Q, R |-> R, xP |-> NoPrecision, vP |-> NoPrecision,
   hE |-> NoShape, gE |-> NoShape, hC |-> NoPrecision, gC |-> NoPrecision]

\* number of non-zero singular values of a diagonal covariance
RECURSIVE Rank(_)
Rank(d) == IF d = <<>> THEN 0
           ELSE (IF Head(d) # 0 THEN 1 ELSE 0) + Rank(Tail(d))

\* ------------------------------------------------ hierarchies given to run
\* A non-terminal level as prepare_models leaves it: maps callable, x of n
\* rows, pE of p rows with an p-by-p covariance, component lists present.
PreparedLevel(l, m, n, pC, nQ, nR) ==
  [GaussianModel("native", "None", "native", "None", m, n, l, Len(pC),
                 n, l, <<Len(pC), 1>>, pC,
                 [k \in 1..nQ |-> Square(l)], [k \in 1..nR |-> Square(n)])
     EXCEPT !.nP = Len(pC),
            !.xP = [shape |-> Square(n), val |-> "zeros"],
            !.vP = [shape |-> Square(n), val |-> "zeros"],
            !.hE = <<nQ, 1>>, !.gE = <<nR, 1>>,
            !.hC = [shape |-> Square(nQ), val |-> "identity"],
            !.gC = [shape |-> Square(nR), val |-> "identity"]]

\* The terminal level: no maps of its own but the constant state map,
\* n = m = p = 0, l causes.
PreparedTop(l) ==
  [GaussianModel("zero", "None", "None", "None", 0, 0, l, 0,
                 0, l, <<0, 1>>, <<>>, <<>>, <<>>)
     EXCEPT !.nP = 0,
            !.xP = [shape |-> Square(0), val |-> "zeros"],
            !.vP = [shape |-> Square(0), val |-> "zeros"],
            !.hE = <<0, 1>>, !.gE = <<0, 1>>,
            !.hC = [shape |-> Square(0), val |-> "identity"],
            !.gC = [shape |-> Square(0), val |-> "identity"]]

\* prior covariances of the non-terminal level: no parameters, a pinned
\* parameter, a free parameter, a free and a pinned parameter
PriorCovariances == {<<>>, <<0>>, <<1>>, <<1, 0>>}

\* one non-terminal level with one output, one prior cause, static or with
\* one hidden state, with or without a cause-noise component; then the top
ShallowModels ==
  { <<PreparedLevel(1, 1, n, pC, nQ, 0), PreparedTop(1)>> :
      n \in 0..1, pC \in PriorCovariances, nQ \in 0..1 }

\* two non-terminal levels with hidden states, then the top: the parameters
\* of the two levels all free, or one of a level's two pinned; each level
\* with a cause-noise component, a state-noise component, or both
DeepPriors == {<<<<1>>, <<1>>>>, <<<<1, 0>>, <<1>>>>, <<<<1>>, <<1, 0>>>>}

DeepComponents == {<<1, 0>>, <<0, 1>>, <<1, 1>>}

DeepModels ==
  { <<PreparedLevel(1, 1, 1, c[1], k[1], k[2]),
      PreparedLevel(1, 1, 2, c[2], k[1], k[2]), PreparedTop(1)>> :
      c \in DeepPriors, k \in DeepComponents }

PreparedModels == ShallowModels \cup DeepModels

\* DEMInversion.__init__: the counts derived from the hierarchy
Construct(H) ==
  [nl |-> Len(H),
   nv |-> SumSeq([k \in 1..Len(H) |-> H[k].m]),
   nx |-> SumSeq([k \in 1..Len(H) |-> H[k].n]),
   ny |-> H[1].l,
   nc |-> H[Len(H)].l]

\* ------------------------------------------------------------ run: inputs
BoolToInt(b) == IF b THEN 1 ELSE 0

\* Values an evaluation may produce for the terms of the objective: the
\* accuracy term Lu (NaN and -inf included), the complexity term Lp of the
\* free energy and the complexity term La of the free action.
LuValues == {NaN, NegInf} \cup (0..MaxL)
LpValues == {0}
LaValues == {1}

\* float addition on the values above
Add(a, b) == IF a = NaN \/ b = NaN THEN NaN
             ELSE IF a = NegInf \/ b = NegInf THEN NegInf
             ELSE a + b

ShortArgs ==
  [y_dim : 1..2, u_dim : {None, 1, 2}, nb : 0..1, nT : {2}, nD : {2},
   nE : 1..MaxNE, nM : 1..MaxNM, Emin : {0}, Mmin : {0}]

LongArgs ==
  [y_dim : {1}, u_dim : {None}, nb : {0}, nT : {2}, nD : {1},
   nE : {LongNE}, nM : {1}, Emin : {0}, Mmin : {0}]

\* the calls tried on hierarchy H: every short call, and the long call on the
\* dynamic model with one free parameter and one precision component
DeepArgs ==
  [y_dim : {1}, u_dim : {None}, nb : {0}, nT : {2}, nD : {2},
   nE : {2}, nM : {1}, Emin : {0}, Mmin : {0}]

\* the calls tried on hierarchy H: with one non-terminal level every short
\* call, and the long call on the dynamic model with one free parameter and
\* one precision component; with two non-terminal levels one call
RunArgs(H) ==
  IF Len(H) > 2 THEN DeepArgs
  ELSE ShortArgs \cup
       (IF H[1].n = 1 /\ H[1].pC = <<1>> /\ Len(H[1].Q) = 1 THEN LongArgs ELSE {})

NoArgs == [y_dim |-> None, u_dim |-> None, nb |-> None, nT |-> None, nD |-> None,
           nE |-> None, nM |-> None, Emin |-> None, Mmin |-> None]

\* bookkeeping of one call: which entry point, the model at entry, the number
\* of generalized_coordinates and dem_eval_err_diff calls made, the number of
\* outer iterations executed, whether each was accepted, the number of
\* M iterations executed in the current outer iteration, the number of
\* D-step updates made at each timestep of the current sweep, the contents of
\* qp, qh, pp when the expansion point was last saved; for prepare_models
\* the maps evaluated so far, in order, and the warnings issued
NoCheckpoint == [qp |-> <<>>, qh |-> <<>>, pp |-> <<>>]

NewTrail(kind, H) ==
  [kind |-> kind, M0 |-> H, embeds |-> 0, evals |-> 0, eIters |-> 0,
   accepted |-> <<>>, mIters |-> 0, dsteps |-> <<>>, probed |-> <<>>, warned |-> {},
   saved |-> NoCheckpoint, error |-> "none"]

NoTrail == NewTrail("none", <<>>)

\* the local variables of run before the call assigns them
ResetLocals ==
  /\ F' = <<>> /\ A' = <<>> /\ Fi' = None /\ Li' = None /\ Ai' = None
  /\ te' = None /\ tm' = None /\ iE' = None /\ iM' = None
  /\ nE' = None /\ nM' = None /\ nh' = None /\ nf' = None
  /\ qp' = None /\ qh' = None /\ pp' = None /\ B' = None /\ dp' = None

\* ------------------------------------------------- run: qp, qh, pp and B
\* qp, qh, pp and the entries of B are dictionaries of arrays.  An array is
\* recorded by its content (a number that tells the contents apart); for
\* qp.e the field eDir records in addition which direction of which level
\* each entry is, and qp.p is the list of the per-level segments;
\* dotdict(**d) copies the dictionary, not the arrays, so an array may be
\* held by qp (qh, pp) and by B at once.  The field own lists the entries
\* whose array the dictionary holds alone.
Arrays(d) == [f \in DOMAIN d \ {"own"} |-> d[f]]

\* (mutant) the entry is updated by writing into the array it holds
Rebind_InPlace(d, f, val) == [d EXCEPT ![f] = val]

\* d.f = val: the entry is bound to a new array
Rebind(d, f, val) == [d EXCEPT ![f] = val, !.own = @ \cup {f}]

\* d.f[...] = val: the array the entry holds is written in place
Write(d, f, val) == [d EXCEPT ![f] = val]

\* the arrays of a saved dictionary b after its source d was changed to dNew:
\* an array that both hold shows what was written into it
Leak(b, dNew) ==
  [f \in DOMAIN b |-> IF f \in dNew.own THEN b[f] ELSE dNew[f]]

\* run, lines 663-665: B.qp = dotdict(**qp), B.qh = dotdict(**qh),
\* B.pp = dotdict(**pp)
Checkpoint(p, h, r) == [qp |-> Arrays(p), qh |-> Arrays(h), pp |-> Arrays(r)]

\* run, lines 702-704: qp = dotdict(**B.qp), likewise pp and qh
Restored(b) == [f \in DOMAIN b \cup {"own"} |-> IF f = "own" THEN {} ELSE b[f]]

\* a dictionary right after it was copied: every array is held twice
Copied(d) == [d EXCEPT !.own = {}]

\* B after qp and qh were changed to p and h
Aliased(b, p, h) == [b EXCEPT !.qp = Leak(@, p), !.qh = Leak(@, h)]

\* ----------------------------------------------------------- run: actions
\* run, line 157: the trailing dimension of y must be ny
BadY(e, a) == e.ny # a.y_dim

\* (mutant) the width of u is never checked
BadU_Unchecked(e, a) == FALSE

\* run, lines 188-191: a given u must have nc columns
BadU(e, a) == a.u_dim # None /\ a.u_dim # e.nc

\* (mutant) the traces are allocated as zeros and never filled with NaN
EmptyTrace_Zeros(n) == [k \in 1..n |-> 0]

\* run, lines 172-175: a trace of n entries, every one the sentinel
EmptyTrace(n) == [k \in 1..n |-> NaN]

\* run, lines 143-191: read the engine's counts, reject a mis-shaped y,
\* allocate the traces filled with the sentinel, reject a mis-shaped u.
RunEnter(a) ==
  /\ pc = "idle"
  /\ args' = a
  /\ IF BadY(engine, a)
       THEN /\ pc' = "raised"
            /\ trail' = [NewTrail("run", M) EXCEPT !.error = "ValueError"]
            /\ UNCHANGED <<F, A, B>>
       ELSE /\ F' = EmptyTrace(a.nE)
            /\ A' = EmptyTrace(a.nE)
            /\ B' = NoCheckpoint
            /\ IF BadU(engine, a)
                 THEN /\ pc' = "raised"
                      /\ trail' = [NewTrail("run", M) EXCEPT !.error = "ValueError"]
                 ELSE /\ pc' = "embed"
                      /\ trail' = NewTrail("run", M)
  /\ qU' = <<>> /\ qE' = <<>>
  /\ UNCHANGED <<i, vRows, M, engine, library, frames, Fi, Li, Ai, te, tm, iE, iM, nE, nM, nh, nf,
                 qp, qh, pp, dp>>

\* run, lines 193-203: embed y, and u and x when they have columns
RunEmbed ==
  /\ pc = "embed"
  /\ trail' = [trail EXCEPT !.embeds = 1 + BoolToInt(engine.nc > 0)
                                         + BoolToInt(args.nb > 0)]
  /\ pc' = "setup"
  /\ UNCHANGED <<i, vRows, M, engine, history, library, frames, args>> /\ UNCHANGED runLocals

\* (mutant) the reduction also overwrites the stored parameter count nP
ReduceParameters_AlsoNP(H) ==
  [k \in 1..Len(H) |->
     IF k < Len(H) THEN [H[k] EXCEPT !.p = Rank(H[k].pC), !.nP = Rank(H[k].pC)]
     ELSE H[k]]

\* run, lines 293-302: eigenvector reduction of each non-terminal level's pC;
\* the level's p becomes the number of directions kept
ReduceParameters(H) ==
  [k \in 1..Len(H) |->
     IF k < Len(H) THEN [H[k] EXCEPT !.p = Rank(H[k].pC)] ELSE H[k]]

\* np.concatenate of a list of vectors
RECURSIVE Concatenate(_)
Concatenate(list) ==
  IF list = <<>> THEN <<>> ELSE Head(list) \o Concatenate(Tail(list))

\* the Python slice s[a:b] of a vector, 0 <= a <= b: the bounds are cut at
\* the length of s
PySlice(s, a, b) == SubSeq(s, Min(a, Len(s)) + 1, Min(b, Len(s)))

\* An entry of the reduced parameter vector is recorded by where it belongs:
\* <<k, j>> is the j-th direction kept from the pC of level k.
\* run, line 301: qp.p[k] has one entry per direction kept on level k
LevelSegment(k, n) == [j \in 1..n |-> <<k, j>>]

\* run, lines 301, 320-326: qp.p, one segment per non-terminal level of the
\* reduced hierarchy H, and qp.e, the segments concatenated
InitialSegments(H) == [k \in 1..(Len(H) - 1) |-> LevelSegment(k, H[k].p)]

\* run, lines 681-685: qp.e is cut back into qp.p, level k taking the
\* entries from the running offset npi to npi + M[k].nP
SplitSegments(e, H) ==
  LET npi(k) == SumSeq([j \in 1..(k - 1) |-> H[j].nP])
  IN  [k \in 1..(Len(H) - 1) |-> PySlice(e, npi(k), npi(k) + H[k].nP)]

\* run, lines 215-265: one library entry per Q and per R component of a level
CountComponents(H) == SumSeq([k \in 1..Len(H) |-> Len(H[k].Q) + Len(H[k].R)])

\* A precision component and a hyperparameter are recorded by where they
\* come from: <<k, "Q", j>> is the j-th cause-noise component (or entry of
\* hE) of level k, <<k, "R", j>> the j-th state-noise component (or entry of
\* gE).
\* run, lines 230-261: the library Q: level by level, the components of
\* M[k].Q and then those of M[k].R
Library(H) ==
  Concatenate([k \in 1..Len(H) |->
                 [j \in 1..Len(H[k].Q) |-> <<k, "Q", j>>]
                   \o [j \in 1..Len(H[k].R) |-> <<k, "R", j>>]])

\* run, lines 280-282: ph.h: the hE of every level, then the gE of every level
Hyperpriors(H) ==
  Concatenate([k \in 1..Len(H) |-> [j \in 1..H[k].hE[1] |-> <<k, "Q", j>>]])
    \o Concatenate([k \in 1..Len(H) |-> [j \in 1..H[k].gE[1] |-> <<k, "R", j>>]])

\* (mutant) the E budget is not cut when there is nothing to estimate
EffectiveNE_NotForced(h, f, a) == a.nE

\* run, lines 379-380: preclude unnecessary iterations
EffectiveNM(h, a) == IF h = 0 THEN 1 ELSE a.nM
EffectiveNE(h, f, a) == IF f = 0 /\ h = 0 THEN 1 ELSE a.nE

\* run, lines 205-399: integration times, precision components, priors,
\* parameter reduction, iteration budgets, Fi = -inf
RunSetup ==
  /\ pc = "setup"
  /\ LET H  == ReduceParameters(M)
         h  == CountComponents(M)
         nP == SumSeq([k \in 1..(Len(H) - 1) |-> H[k].p])
         fr == nP + args.nb * engine.ny
     IN  /\ M' = H
         /\ nh' = h
         /\ nf' = fr
         /\ nM' = EffectiveNM(h, args)
         /\ nE' = EffectiveNE(h, fr, args)
  /\ Qlib' = Library(M)
  /\ ph' = [h |-> Hyperpriors(M)]
  /\ te' = 0 /\ tm' = 8
  /\ qh' = [h |-> 0, own |-> {"h"}]
  /\ pp' = [ic |-> 0, own |-> {"ic"}]
  /\ LET segs == InitialSegments(ReduceParameters(M))
     IN  qp' = [e |-> 0, eDir |-> Concatenate(segs), p |-> segs, ic |-> 0, c |-> 0,
                own |-> {"e", "eDir", "p", "ic", "c"}]
  /\ Fi' = NegInf
  /\ iE' = 0
  /\ pc' = "D"
  /\ UNCHANGED <<i, vRows, engine, history, frames, args, F, A, Li, Ai, iM, trail, B, dp>>

\* The states qu the D-step works on are recorded by the update that
\* produced them: <<e, t, d>> for the result of the update made in outer
\* iteration e at timestep t, sub-step d (0-based, as in the code), and
\* InitialStates for the states of lines 341-351.  An entry of qU records the
\* iteration and sub-step that wrote it and the states it is a copy of; an
\* entry of qE the iteration and sub-step whose errors it holds.

InitialStates == <<None, None, None>>

\* (mutant) the states are saved at every sub-step
Saves_EverySubStep(iD) == TRUE

\* run, line 483: the states and errors are saved at the first sub-step
Saves(iD) == iD = 0

\* run, lines 484-489: append in the first outer iteration, overwrite after
Put(list, iT, entry, e) ==
  IF e = 0 THEN Append(list, entry) ELSE [list EXCEPT ![iT + 1] = entry]

\* run, lines 443-537: sub-step iD of timestep iT in outer iteration e: the
\* errors are evaluated at qu, qu and E are saved when iD = 0, and the
\* update replaces the states
SubStep(w, e, iT, iD) ==
  [qu |-> <<e, iT, iD>>,
   qU |-> IF Saves(iD) THEN Put(w.qU, iT, [iE |-> e, iD |-> iD, state |-> w.qu], e)
          ELSE w.qU,
   qE |-> IF Saves(iD) THEN Put(w.qE, iT, [iE |-> e, iD |-> iD], e) ELSE w.qE,
   dsteps |-> [w.dsteps EXCEPT ![iT + 1] = @ + 1],
   evals |-> w.evals + 1]

\* run, lines 443-537: for iD in range(nD), the sub-steps iD .. nD - 1
RECURSIVE SubSteps(_, _, _, _, _)
SubSteps(w, e, iT, iD, nD) ==
  IF iD >= nD THEN w
  ELSE SubSteps(SubStep(w, e, iT, iD), e, iT, iD + 1, nD)

\* run, lines 438-439: a static system starts the timestep from the states
\* saved for it, when there are any
Reload(w, iT, nx) ==
  IF nx = 0 /\ Len(w.qU) > iT THEN [w EXCEPT !.qu = w.qU[iT + 1].state] ELSE w

\* run, lines 430-561: for iT in range(nT), the timesteps iT .. nT - 1
RECURSIVE Sweep(_, _, _, _, _, _)
Sweep(w, e, iT, nT, nD, nx) ==
  IF iT >= nT THEN w
  ELSE Sweep(SubSteps(Reload(w, iT, nx), e, iT, 0, nD), e, iT + 1, nT, nD, nx)

\* run, line 425: an outer iteration after the first starts from qU[0]
SweepStart(e, U, X, nT) ==
  [qu |-> IF e > 0 THEN U[1].state ELSE InitialStates,
   qU |-> U, qE |-> X, dsteps |-> [t \in 1..nT |-> 0], evals |-> 0]

\* run, lines 403-561: reset the accumulators and sweep the timesteps, nD
\* D-steps each, every D-step evaluating the prediction errors once
DStep ==
  /\ pc = "D"
  /\ LET w == Sweep(SweepStart(iE, qU, qE, args.nT), iE, 0, args.nT, args.nD,
                    engine.nx)
     IN  /\ qU' = w.qU
         /\ qE' = w.qE
         /\ trail' = [trail EXCEPT !.evals = @ + w.evals, !.mIters = 0,
                                   !.dsteps = w.dsteps]
  /\ qp' = Rebind(qp, "ic", 10 * (iE + 1))
  /\ B' = Aliased(B, qp', qh)
  /\ iM' = 0
  /\ pc' = "M"
  /\ UNCHANGED <<i, vRows, M, engine, library, frames, args, F, A, Fi, Li, Ai, te, tm, iE, nE, nM, nh, nf,
                 qh, pp, dp>>

\* run, lines 567-608: one M iteration; with hyperparameters present it may
\* find the step small and leave the loop once iM > Mmin
MStep ==
  /\ pc = "M"
  /\ trail' = [trail EXCEPT !.mIters = @ + 1]
  /\ \E small \in BOOLEAN :
       IF nh > 0 /\ small /\ iM > args.Mmin
         THEN pc' = "eval" /\ iM' = iM
         ELSE IF iM + 1 < nM
                THEN pc' = "M" /\ iM' = iM + 1
                ELSE pc' = "eval" /\ iM' = iM
  /\ qh' = IF nh > 0 THEN Rebind(qh, "h", 10 * (iE + 1)) ELSE qh
  /\ B' = Aliased(B, qp, qh')
  /\ UNCHANGED <<i, vRows, M, engine, history, library, frames, args, F, A, Fi, Li, Ai, te, tm, iE, nE, nM, nh, nf,
                 qp, pp, dp>>

\* (mutant) the first two iterations are accepted unconditionally
Accepts_FirstTwo(li, fi, ie) == GT(li, fi) \/ ie < 2

\* (mutant) an iteration that only equals the best free energy is accepted
Accepts_OrEqual(li, fi, ie) == GT(li, fi) \/ (li # NaN /\ li = fi) \/ ie < 1

\* run, line 657: the test that accepts an outer iteration
Accepts(li, fi, ie) == GT(li, fi) \/ ie < 1

\* (mutant) the trace receives the free energy of the iteration itself
RecordedF_Li(fi, li) == li

\* run, lines 719-720: the values written to the traces
RecordedF(fi, li) == fi
RecordedA(fi, ai) == ai

\* (mutant) an accepted iteration raises a temperature without a cap
Raised_Uncapped(t) == t + 1

\* run, lines 660-662: an accepted iteration raises a temperature by 1/2, up to 4
Raised(t) == Min(t + 1, 8)

\* (mutant) a rejected iteration lowers a temperature by 2, but not below -2
Lowered_Floor(t) == IF t - 4 > -4 THEN t - 4 ELSE -4

\* (mutant) a rejection leaves the M budget as it was
NMAfterReject_Kept(nm) == nm

\* run, line 701: after a rejection the M loop runs once
NMAfterReject(nm) == 1

\* (mutant) the loop never stops on a low temperature
Collapsed_Never(t) == FALSE

\* run, line 727: the temperature te has collapsed (te < -8)
Collapsed(t) == t < -16

\* run, lines 705-706: a rejected iteration lowers a temperature by 2, to -2 at most
Lowered(t) == Min(t - 4, -4)

\* run, lines 612-613: the prior precision is added into qp.ic in place,
\* qp.c is bound to its inverse
ConditionalPrecision(d) == Rebind(Write(d, "ic", d.ic + 1), "c", d.ic + 1)

\* run, lines 610-696 and 719-720: evaluate the free energy Li and the free
\* action Ai; Li is accepted: save the expansion point, raise the
\* temperatures, update the parameters; write the traces
EStepAccept ==
  /\ pc = "eval"
  /\ \E Lu \in LuValues, Lp \in LpValues, La \in LaValues :
       LET li == Add(Lu, Lp)
           ai == Add(Lu, La)
       IN  /\ Accepts(li, Fi, iE)
           /\ Li' = li /\ Ai' = ai
           /\ Fi' = li
           /\ F' = [F EXCEPT ![iE + 1] = RecordedF(li, li)]
           /\ A' = [A EXCEPT ![iE + 1] = RecordedA(li, ai)]
  /\ te' = Raised(te)
  /\ tm' = Raised(tm)
  /\ LET p == ConditionalPrecision(qp)
     IN  /\ B' = Checkpoint(p, qh, pp)
         /\ qp' = Rebind(Rebind(Copied(p), "e", p.e + 1),
                         "p", SplitSegments(p.eDir, M))
         /\ qh' = Copied(qh)
         /\ pp' = Copied(pp)
         /\ dp' = 1
         /\ trail' = [trail EXCEPT !.accepted = Append(@, TRUE), !.eIters = @ + 1,
                                   !.saved = Checkpoint(p, qh, pp)]
  /\ pc' = "converge"
  /\ UNCHANGED <<i, vRows, M, engine, history, library, frames, args, iE, iM, nE, nM, nh, nf>>

\* run, lines 610-655 and 697-720: evaluate Li and Ai; Li is rejected: return
\* to the saved expansion point, one M iteration from now on, lower the
\* temperatures; write the traces
EStepReject ==
  /\ pc = "eval"
  /\ \E Lu \in LuValues, Lp \in LpValues, La \in LaValues :
       LET li == Add(Lu, Lp)
           ai == Add(Lu, La)
       IN  /\ ~Accepts(li, Fi, iE)
           /\ Li' = li /\ Ai' = ai
           /\ F' = [F EXCEPT ![iE + 1] = RecordedF(Fi, li)]
           /\ A' = [A EXCEPT ![iE + 1] = RecordedA(Fi, ai)]
  /\ nM' = NMAfterReject(nM)
  /\ te' = Lowered(te)
  /\ tm' = Lowered(tm)
  /\ LET b == Aliased(B, ConditionalPrecision(qp), qh)
     IN  /\ B' = b
         /\ qp' = Restored(b.qp)
         /\ pp' = Restored(b.pp)
         /\ qh' = Restored(b.qh)
         /\ dp' = 0
  /\ trail' = [trail EXCEPT !.accepted = Append(@, FALSE), !.eIters = @ + 1]
  /\ pc' = "converge"
  /\ UNCHANGED <<i, vRows, M, engine, history, library, frames, args, Fi, iE, iM, nE, nh, nf>>

\* run, lines 723-735 and the loop head at 401: leave the loop on convergence
\* (small steps, after Emin iterations), on temperature collapse, or when the
\* budget is used up
CheckConvergence ==
  /\ pc = "converge"
  /\ \E small \in BOOLEAN :
       IF (small /\ iE > args.Emin) \/ Collapsed(te)
         THEN pc' = "post" /\ iE' = iE
         ELSE IF iE + 1 < nE
                THEN pc' = "D" /\ iE' = iE + 1
                ELSE pc' = "post" /\ iE' = iE
  /\ UNCHANGED <<i, vRows, M, engine, history, library, frames, args, F, A, Fi, Li, Ai, te, tm, iM, nE, nM, nh, nf, trail>>
  /\ UNCHANGED moments

\* run, lines 737-785: assemble the results record and return it
PostProcess ==
  /\ pc = "post"
  /\ pc' = "returned"
  /\ UNCHANGED <<i, vRows, M, engine, history, library, frames, args, trail>> /\ UNCHANGED runLocals

\* The order-zero cause of a level is recorded by what set it: "init" (the
\* initial conditions, line 809), "noise" (the top level's innovation), "g"
\* (the level's observation map plus its noise) or "flow" (the integration
\* at the end of a timestep), with the timestep t of the loop in which it
\* was set and, for "g", the timestep input in which the cause it was
\* evaluated at, v[k + 1], had been set.
Cause(t, by, input) == [t |-> t, by |-> by, input |-> input]

\* (mutant) the levels are processed from the finest to the coarsest
LevelOrder_Ascending(nl) == [j \in 1..(nl - 1) |-> j]

\* generate, line 853: for i in range(nl - 1)[::-1]: the non-terminal levels
\* from the one below the top down to the first (1-based)
LevelOrder(nl) == [j \in 1..(nl - 1) |-> nl - j]

\* np.concatenate over per-level vectors: the level each entry comes from,
\* for the levels in the order given, level k having H[k].n entries
Owners(order, H) ==
  Concatenate([j \in 1..Len(order) |-> [c \in 1..H[order[j]].n |-> order[j]]])

\* generate, lines 887-903: x[1, :] = f + w[0]: entry by entry, the level
\* whose order-one state is set, the level whose flow and the level whose
\* state noise it receives; x and w are concatenated over all levels in
\* ascending order, f in the order the flows were appended
OrderOneStates(f, H) ==
  LET levels == [k \in 1..Len(H) |-> k]
      xs == Owners(levels, H)
      fs == Owners(f, H)
      ws == Owners(levels, H)
  IN  [c \in 1..Len(xs) |-> [x |-> xs[c], f |-> fs[c], w |-> ws[c]]]

\* the local variables of generate: the number of timesteps, the timestep t
\* of the loop, the order-zero causes v of the levels, the position j in the
\* descending loop, the list f of flows by level, and what was saved: V[t]
\* and the order-one states of X[t]
GenFrame(nT, H) ==
  [nT |-> nT, t |-> 0, v |-> [k \in 1..Len(H) |-> Cause(None, "init", None)],
   j |-> 1, f |-> <<>>, V |-> <<>>, X |-> <<>>]

\* generate, lines 787-818: draw the noise and set the initial conditions.
\* These are concatenated from the levels with n > 0 (and l > 0); with none
\* of them numpy refuses the empty concatenation.
Generate ==
  /\ pc = "idle"
  /\ \E nT \in {2} :
       /\ args' = [NoArgs EXCEPT !.nT = nT]
       /\ IF engine.nx = 0
            THEN /\ pc' = "raised"
                 /\ trail' = [NewTrail("generate", M) EXCEPT !.error = "ValueError"]
                 /\ gen' = gen
            ELSE /\ pc' = "g_top"
                 /\ trail' = [NewTrail("generate", M)
                                EXCEPT !.embeds = 2 * Len(M)]
                 /\ gen' = GenFrame(nT, M)
  /\ UNCHANGED <<i, vRows, M, engine, history, library, gc, de>> /\ UNCHANGED runLocals

\* generate, lines 819-852: unpack the states of timestep t and drive the
\* top level's cause by its noise
GenTop ==
  /\ pc = "g_top"
  /\ gen' = [gen EXCEPT !.v[Len(M)] = Cause(gen.t, "noise", None),
                        !.f = <<>>, !.j = 1]
  /\ pc' = "g_level"
  /\ UNCHANGED <<i, vRows, M, engine, history, library, gc, de, args, trail>>
  /\ UNCHANGED runLocals

\* generate, lines 853-885: one pass of the descending loop: evaluate f and
\* g of level k at (x[k], v[k + 1]), set v[k] to g plus the level's noise,
\* append the flow
GenLevel ==
  /\ pc = "g_level"
  /\ LET k == LevelOrder(Len(M))[gen.j]
     IN  gen' = [gen EXCEPT !.v[k] = Cause(gen.t, "g", gen.v[k + 1].t),
                            !.f = Append(@, k), !.j = @ + 1]
  /\ pc' = IF gen.j < Len(M) - 1 THEN "g_level" ELSE "g_save"
  /\ UNCHANGED <<i, vRows, M, engine, history, library, gc, de, args, trail>>
  /\ UNCHANGED runLocals

\* generate, lines 887-932: concatenate, set the order-one states, save the
\* realization of timestep t and integrate to the next timestep
GenSave ==
  /\ pc = "g_save"
  /\ gen' = [gen EXCEPT !.V = Append(@, gen.v),
                        !.X = Append(@, OrderOneStates(gen.f, M)),
                        !.v = [k \in 1..Len(M) |-> Cause(gen.t, "flow", None)],
                        !.t = @ + 1]
  /\ pc' = IF gen.t + 1 < gen.nT THEN "g_top" ELSE "returned"
  /\ UNCHANGED <<i, vRows, M, engine, history, library, gc, de, args, trail>>
  /\ UNCHANGED runLocals

\* the caller takes the result (or the exception) and the locals are gone
Finish ==
  /\ pc \in {"returned", "raised"}
  /\ pc' = "idle"
  /\ args' = NoArgs
  /\ trail' = NoTrail
  /\ ResetLocals
  /\ qU' = <<>> /\ qE' = <<>> /\ ph' = None /\ Qlib' = <<>>
  /\ gen' = None
  /\ UNCHANGED <<i, vRows, M, engine, gc, de>>

InitRun ==
  /\ M \in PreparedModels
  /\ engine = Construct(M)
  /\ pc = "idle"
  /\ args = NoArgs
  /\ F = <<>> /\ A = <<>> /\ Fi = None /\ Li = None /\ Ai = None
  /\ te = None /\ tm = None /\ iE = None /\ iM = None
  /\ nE = None /\ nM = None /\ nh = None /\ nf = None
  /\ qp = None /\ qh = None /\ pp = None /\ B = None /\ dp = None
  /\ trail = NoTrail
  /\ i = None /\ vRows = None
  /\ qU = <<>> /\ qE = <<>> /\ ph = None /\ Qlib = <<>>
  /\ gen = None /\ gc = None /\ de = None

NextRun ==
  \/ \E a \in RunArgs(M) : RunEnter(a)
  \/ RunEmbed
  \/ RunSetup
  \/ DStep
  \/ MStep
  \/ EStepAccept
  \/ EStepReject
  \/ CheckConvergence
  \/ PostProcess
  \/ Generate
  \/ GenTop
  \/ GenLevel
  \/ GenSave
  \/ Finish

SpecRun == InitRun /\ [][NextRun]_vars

\* ================================================== prepare_models: inputs
\* largest number of rows an observation map returns
MaxDim == 2

\* callable(...) on a map field
Callable(kind) == kind # "None"

\* what a user writes for a level: the state map as (f, fsymb) and the
\* observation map as (g, gsymb), native, symbolic or absent
UserMaps ==
  { <<f, "None", g, "None">> : f \in {"None", "native"}, g \in {"None", "native"} }
    \cup { <<"None", "symbolic", "None", "symbolic">> }

\* the hidden states as (n, x): nothing, the count, or the initial state
UserStates == { <<None, None>>, <<1, None>>, <<None, 1>> }

\* one level as written by the user.  m and l are declarations the probes
\* may contradict; pE is absent or a column of one row.
Descriptors ==
  { GaussianModel(mp[1], mp[2], mp[3], mp[4], m, st[1], l, None, st[2], None,
                  pE, NoPC, NoList, NoList) :
      mp \in UserMaps, st \in UserStates, m \in {None, 1, 2}, l \in {None, 1},
      pE \in {NoShape, <<1, 1>>} }

\* a static level with a native observation map and nothing else declared,
\* and a level with native maps and n hidden states
PlainLevel ==
  GaussianModel("None", "None", "native", "None", None, None, None, None, None,
                None, NoShape, NoPC, NoList, NoList)

DynamicLevel(n) == [PlainLevel EXCEPT !.f = "native", !.n = n]

\* levels that declare a map twice, natively and symbolically: the state map
\* (with and without its states), the observation map
ConflictLevels ==
  { [DynamicLevel(1) EXCEPT !.fsymb = "symbolic"],
    [DynamicLevel(None) EXCEPT !.fsymb = "symbolic"],
    [PlainLevel EXCEPT !.gsymb = "symbolic"] }

\* the forms of the parameter priors: pE absent, a vector, a column, a row;
\* pC (values, shape) absent, a scalar, a vector, a matrix
PEShapes == {NoShape, <<1>>, <<2>>, <<1, 1>>, <<2, 1>>, <<1, 2>>}

PCForms ==
  { <<NoPC, NoShape>>, <<<<1>>, <<>>>>, <<<<1>>, <<1>>>>, <<<<1, 0>>, <<2>>>>,
    <<<<1>>, <<1, 1>>>>, <<<<1, 0>>, <<2, 2>>>>, <<<<1>>, <<1, 2>>>>,
    <<<<1>>, <<2, 1>>>> }

PriorLevels ==
  { [PlainLevel EXCEPT !.pE = e, !.pC = c[1], !.pCs = c[2]] :
      e \in PEShapes, c \in PCForms }

\* lists of noise components by shape: absent, empty, square, not square
ComponentLists ==
  { NoList, <<>>, <<<<1, 1>>>>, <<<<2, 2>>>>, <<<<1, 2>>>>, <<<<2, 1>>>>,
    <<<<1, 1>>, <<1, 1>>>> }

NoiseLevels ==
  { [DynamicLevel(1) EXCEPT !.Q = q, !.R = r] :
      q \in ComponentLists, r \in ComponentLists \ {<<>>, <<<<1, 1>>, <<1, 1>>>>} }

\* prior precisions as the user may give them: absent, a 0-d array, vectors,
\* matrices square or not
UserPrecisions ==
  { NoPrecision } \cup
  { [shape |-> sh, val |-> "user"] :
      sh \in {<<>>, <<1>>, <<2>>, <<3>>, <<1, 1>>, <<2, 2>>, <<1, 2>>, <<2, 1>>} }

PrecisionLevels ==
  { [DynamicLevel(n) EXCEPT !.xP = P] : n \in 1..2, P \in UserPrecisions }
    \cup { [DynamicLevel(n) EXCEPT !.vP = P] : n \in 1..2, P \in UserPrecisions }

SpecialLevels == ConflictLevels \cup PriorLevels \cup NoiseLevels \cup PrecisionLevels

\* hyperprior expectations as the user may give them, by shape: absent, a
\* scalar, vectors of no, one, two, three entries
HyperShapes == {NoShape, <<>>, <<0>>, <<1>>, <<2>>, <<3>>}

\* lists of one, two, three 1-by-1 components, or none declared
HyperComponents ==
  { NoList, <<<<1, 1>>>>, <<<<1, 1>>, <<1, 1>>>>, <<<<1, 1>>, <<1, 1>>, <<1, 1>>>> }

\* levels with one hidden state that declare the hyperpriors of the cause
\* noise, or those of the state noise, with or without components
HyperLevels ==
  { [DynamicLevel(1) EXCEPT !.Q = q, !.hE = e, !.hC = c] :
      q \in HyperComponents, e \in HyperShapes, c \in UserPrecisions }
    \cup { [DynamicLevel(1) EXCEPT !.R = q, !.gE = e, !.gC = c] :
              q \in HyperComponents, e \in HyperShapes, c \in UserPrecisions }

\* the level without its observation map, as the user writes a top level
AsTop(d) == [d EXCEPT !.g = "None", !.gsymb = "None"]

\* the lists given to prepare_models: one or two levels of the first kind;
\* a special level alone, above a plain level, or as the top of one
UserModels ==
  { <<d>> : d \in Descriptors } \cup { <<d, e>> : d \in Descriptors, e \in Descriptors }
    \cup { <<d>> : d \in SpecialLevels }
    \cup { <<PlainLevel, d>> : d \in SpecialLevels }
    \cup { <<PlainLevel, AsTop(d)>> : d \in SpecialLevels }
    \cup { <<d>> : d \in HyperLevels }

\* ------------------------------------------------- prepare_models: actions
RaiseInPrep(e) ==
  /\ pc' = "raised"
  /\ trail' = [trail EXCEPT !.error = e]

\* (mutant) the terminal level is left as it was written
Terminate_Untouched(L) == L

\* prepare_models, lines 76-78: the last level has no states, causes, parameters
Terminate(L) == [L EXCEPT !.n = 0, !.m = 0, !.p = 0]

\* prepare_models, lines 67-78: append a top level when the last level given
\* has an observation map, then terminate the last level
PrepTop ==
  /\ pc = "p_top"
  /\ LET last == M[Len(M)]
         H == IF Callable(last.g) \/ Callable(last.gsymb)
                THEN Append(M, GaussianModel("None", "None", "None", "None",
                                             None, None, last.m, None, None, None,
                                             NoShape, NoPC, NoList, NoList))
                ELSE M
     IN  M' = [H EXCEPT ![Len(H)] = Terminate(@)]
  /\ i' = 1
  /\ pc' = "p_levels"
  /\ UNCHANGED <<vRows, engine, history, library, frames, args, trail>> /\ UNCHANGED runLocals

\* prepare_models, line 82: a state map without states or their number
MissingStates(L) == L.f # "None" /\ L.n = None /\ L.x = None

\* prepare_models, lines 86-89: a level without state map is static
StaticDefault(L) ==
  IF ~Callable(L.f) /\ ~Callable(L.fsymb)
    THEN [L EXCEPT !.f = "zero", !.x = 0, !.n = 0]
    ELSE L

\* prepare_models, lines 96-99: pE defaults to an empty column and a vector
\* becomes a column; an array of two dimensions is taken as it is
ColumnOf(shape) ==
  IF shape = NoShape THEN <<0, 1>>
  ELSE IF Len(shape) = 1 THEN <<shape[1], 1>>
  ELSE shape

\* prepare_models, lines 96-115: p and nP are the number of rows of pE; pC
\* defaults to a p-by-p matrix of zeros, a scalar is put on the diagonal of a
\* p-by-p matrix, a vector on the diagonal of a matrix of its own length
ParameterDefaults(L) ==
  LET col  == ColumnOf(L.pE)
      rows == col[1]
  IN  [L EXCEPT !.pE = col, !.p = rows, !.nP = rows,
                !.pC = IF L.pCs = NoShape THEN [k \in 1..rows |-> 0]
                       ELSE IF L.pCs = <<>> THEN [k \in 1..rows |-> L.pC[1]]
                       ELSE L.pC,
                !.pCs = IF L.pCs = NoShape \/ L.pCs = <<>> THEN Square(rows)
                        ELSE IF Len(L.pCs) = 1 THEN Square(L.pCs[1])
                        ELSE L.pCs]

\* prepare_models, lines 80-131: one pass of the first loop over the levels
PrepLevel ==
  /\ pc = "p_levels"
  /\ IF MissingStates(M[i])
       THEN /\ RaiseInPrep("ValueError")
            /\ UNCHANGED <<M, i>>
       ELSE LET L == ParameterDefaults(StaticDefault(M[i]))
            IN  /\ M' = [M EXCEPT ![i] = L]
                /\ IF L.pCs[1] # L.p \/ L.pCs[2] # L.p
                     THEN /\ RaiseInPrep("ValueError")
                          /\ i' = i
                     ELSE /\ trail' = trail
                          /\ IF i < Len(M)
                               THEN i' = i + 1 /\ pc' = "p_levels"
                               ELSE i' = i /\ pc' = "p_inputs"
  /\ UNCHANGED <<vRows, engine, history, library, frames, args>> /\ UNCHANGED runLocals

\* prepare_models, lines 134-139: the rows of the prior causes v: those of
\* the top level's v when it has any, else the m declared one level below,
\* else the l declared on the top level, else none
TopInput(H) ==
  LET top   == H[Len(H)]
      given == IF top.v = None THEN 0 ELSE top.v
  IN  IF given # 0 THEN given
      ELSE IF H[Len(H) - 1].m # None THEN H[Len(H) - 1].m
      ELSE IF top.l # None THEN top.l
      ELSE 0

\* prepare_models, lines 133-141: fix the top level's l and v.  With a single
\* level and no v of its own, M[-2] is not an element of the list.
PrepInputs ==
  /\ pc = "p_inputs"
  /\ IF Len(M) = 1 /\ M[1].v \in {None, 0}
       THEN /\ RaiseInPrep("IndexError")
            /\ UNCHANGED <<M, i, vRows>>
       ELSE /\ vRows' = TopInput(M)
            /\ M' = [M EXCEPT ![Len(M)].l = TopInput(M), ![Len(M)].v = TopInput(M)]
            /\ i' = IF Len(M) > 1 THEN Len(M) - 1 ELSE 1
            /\ pc' = IF Len(M) > 1 THEN "p_check" ELSE "p_priors"
            /\ trail' = trail
  /\ UNCHANGED <<engine, history, library, frames, args>> /\ UNCHANGED runLocals

\* what the code the user supplies, and the compilers, may do on one level:
\* compiling fsymb / gsymb succeeds or not, f raises or returns an array of
\* the shape of x or of another shape, g raises (None) or returns some rows,
\* the derivatives can be obtained or not.  Each outcome runs up to its
\* first failure.
Smooth == [fc |-> TRUE, fout |-> "same", gc |-> TRUE, gout |-> 0, dc |-> TRUE]

Outcomes ==
  { [Smooth EXCEPT !.gout = rows, !.dc = d] : rows \in 0..MaxDim, d \in BOOLEAN }
    \cup { [Smooth EXCEPT !.fc = FALSE], [Smooth EXCEPT !.fout = "other"],
           [Smooth EXCEPT !.fout = "raises"], [Smooth EXCEPT !.gc = FALSE],
           [Smooth EXCEPT !.gout = None] }

\* prepare_models, lines 180-182 and 188-190: a declared dimension that the
\* inferred one contradicts
DimWarning(declared, inferred) == declared # None /\ declared # inferred

\* (mutant) a declared cause dimension is kept
CauseDim_KeepDeclared(declared, inferred) ==
  IF declared # None THEN declared ELSE inferred

\* prepare_models, line 183: the cause dimension is the number of rows of v
CauseDim(declared, inferred) == inferred

\* prepare_models, lines 145-237 for one level L, entered with vin rows of v
\* and with outcomes o: the level as the code leaves it, the rows of v, the
\* maps evaluated, the dimensions warned about, and the error raised if any
CheckLevel(L, vin, o) ==
  LET Stop(lev, pr, wr, e) ==
        [L |-> lev, v |-> vin, probes |-> pr, warns |-> wr, error |-> e]
      x0 == IF L.x = None THEN L.n ELSE L.x
      x  == IF x0 = 0 /\ L.n > 0 THEN L.n ELSE x0
      Lf == IF Callable(L.fsymb) THEN [L EXCEPT !.f = "compiled"] ELSE L
      fres == IF Lf.f = "zero" THEN (IF x = 0 THEN "same" ELSE "other")
              ELSE o.fout
      Lg == IF Callable(Lf.gsymb) THEN [Lf EXCEPT !.g = "compiled"] ELSE Lf
      wm == IF DimWarning(Lg.m, vin) THEN {"m"} ELSE {}
      Lm == [Lg EXCEPT !.m = CauseDim(Lg.m, vin)]
      wl == IF DimWarning(Lm.l, o.gout) THEN {"l"} ELSE {}
      Ll == [Lm EXCEPT !.l = o.gout, !.n = x, !.v = o.gout, !.x = x]
  IN  IF x0 = None \/ (x0 = 0 /\ L.n = None)
        THEN Stop(L, <<>>, {}, "TypeError")
      ELSE IF Callable(L.f) /\ Callable(L.fsymb)
        THEN Stop(L, <<>>, {}, "ValueError")
      ELSE IF Callable(L.fsymb) /\ ~o.fc
        THEN Stop(L, <<>>, {}, "Exception")
      ELSE IF ~Callable(Lf.f)
        THEN Stop(L, <<>>, {}, "ValueError")
      ELSE IF fres # "same"
        THEN Stop(Lf, <<"f">>, {}, "ValueError")
      ELSE IF Callable(Lf.g) /\ Callable(Lf.gsymb)
        THEN Stop(Lf, <<"f">>, {}, "ValueError")
      ELSE IF Callable(Lf.gsymb) /\ ~o.gc
        THEN Stop(Lf, <<"f">>, {}, "Exception")
      ELSE IF ~Callable(Lg.g)
        THEN Stop(Lg, <<"f">>, {}, "ValueError")
      ELSE IF o.gout = None
        THEN Stop(Lm, <<"f", "g">>, wm, "ValueError")
      ELSE [L |-> Ll, v |-> o.gout, probes |-> <<"f", "g">>, warns |-> wm \cup wl,
            error |-> IF o.dc THEN "none" ELSE "RuntimeError"]

\* prepare_models, lines 144-237: one pass of the second loop, from the level
\* below the top down to the first
PrepCheck ==
  /\ pc = "p_check"
  /\ \E o \in Outcomes :
       LET r == CheckLevel(M[i], vRows, o)
       IN  /\ M' = [M EXCEPT ![i] = r.L]
           /\ vRows' = r.v
           /\ trail' = [trail EXCEPT
                          !.probed = @ \o [k \in 1..Len(r.probes) |-> <<i, r.probes[k]>>],
                          !.warned = @ \cup {<<i, w>> : w \in r.warns},
                          !.error = r.error]
           /\ IF r.error # "none" THEN pc' = "raised" /\ i' = i
              ELSE IF i > 1 THEN pc' = "p_check" /\ i' = i - 1
              ELSE pc' = "p_priors" /\ i' = 1
  /\ UNCHANGED <<engine, history, library, frames, args>> /\ UNCHANGED runLocals

\* math.prod of a shape
RECURSIVE Prod(_)
Prod(s) == IF s = <<>> THEN 1 ELSE Head(s) * Prod(Tail(s))

\* the shape after numpy's squeeze(): the sizes other than 1
Squeeze(s) == SelectSeq(s, LAMBDA d : d # 1)

\* prepare_models, lines 243 and 254: an absent precision is np.empty(0)
Given(P) == IF P.shape = NoShape THEN <<0>> ELSE P.shape

\* prepare_models, lines 244-251 (255-262): the branch taken for a precision
\* of shape s on a level with n hidden states
PrecisionCase(s, n) ==
  IF Prod(s) = Len(s) THEN "scaled"
  ELSE IF Len(s) = 1 /\ s[1] = n THEN "diag"
  ELSE IF Len(s) > 2 \/ (Len(s) = 2 /\ \E k \in 1..2 : s[k] # n) THEN "raise"
  ELSE "zeros"

\* a matrix without entries has no values to tell apart
Matrix(shape, val) ==
  [shape |-> shape, val |-> IF Prod(shape) = 0 THEN "zeros" ELSE val]

\* prepare_models, lines 243-251 (254-262): the precision as the code leaves
\* it; val "ValueError" when the code raises, by itself or in numpy's
\* broadcasting of np.eye(n) * P.squeeze()
Normalised(P, n) ==
  LET s == Given(P)
      c == PrecisionCase(s, n)
      t == Squeeze(s)
  IN  IF c = "scaled"
        THEN IF t = <<>> THEN Matrix(Square(n), "identity")
             ELSE IF t[1] = n THEN Matrix(Square(n), "diag")
             ELSE IF n = 1 THEN Matrix(<<1, t[1]>>, "row")
             ELSE [shape |-> NoShape, val |-> "ValueError"]
      ELSE IF c = "diag" THEN Matrix(Square(n), "diag")
      ELSE IF c = "raise" THEN [shape |-> NoShape, val |-> "ValueError"]
      ELSE Matrix(Square(n), "zeros")

\* prepare_models, lines 239-262: one pass of the loop over the levels that
\* brings xP and then vP to full matrices
PrepPriors ==
  /\ pc = "p_priors"
  /\ LET X == Normalised(M[i].xP, M[i].n)
         V == Normalised(M[i].vP, M[i].n)
     IN  IF X.val = "ValueError"
           THEN /\ RaiseInPrep("ValueError")
                /\ UNCHANGED <<M, i>>
         ELSE IF V.val = "ValueError"
           THEN /\ RaiseInPrep("ValueError")
                /\ M' = [M EXCEPT ![i].xP = X]
                /\ i' = i
         ELSE /\ M' = [M EXCEPT ![i].xP = X, ![i].vP = V]
              /\ trail' = trail
              /\ IF i < Len(M)
                   THEN i' = i + 1 /\ pc' = "p_priors"
                   ELSE i' = i /\ pc' = "p_finish"
  /\ UNCHANGED <<vRows, engine, history, library, frames, args>> /\ UNCHANGED runLocals

\* prepare_models, lines 274-275: an absent list of components is empty
ListOf(Q) == IF Q = NoList THEN <<>> ELSE Q

\* prepare_models, lines 318-328: a component of Q whose len() is not l, or
\* a component of R whose len() is not n
WrongComponent(L) ==
  \/ \E j \in 1..Len(ListOf(L.Q)) : ListOf(L.Q)[j][1] # L.l
  \/ \E j \in 1..Len(ListOf(L.R)) : ListOf(L.R)[j][1] # L.n

\* numpy's broadcasting rule for two shapes: aligned from the right, the
\* sizes are equal or one of them is 1
RECURSIVE Broadcasts(_, _)
Broadcasts(s, t) ==
  IF s = <<>> \/ t = <<>> THEN TRUE
  ELSE /\ (s[Len(s)] = t[Len(t)] \/ s[Len(s)] = 1 \/ t[Len(t)] = 1)
       /\ Broadcasts(SubSeq(s, 1, Len(s) - 1), SubSeq(t, 1, Len(t) - 1))

\* prepare_models, lines 280-281: the expectation of the hyperparameters is a
\* column: zeros, one per component, when absent, else the entries given
Column(E, comps) ==
  IF E = NoShape THEN <<Len(comps), 1>> ELSE <<Prod(E), 1>>

\* prepare_models, lines 284-293: the covariance given is kept when it is
\* there and can be multiplied with the column E; else it is the identity
\* with one row per entry of E
Covariance(C, E) ==
  IF C.shape # NoShape /\ Broadcasts(C.shape, E) THEN C
  ELSE [shape |-> Square(E[1]), val |-> "identity"]

\* (mutant) the components stay as they were declared
Components_AsDeclared(comps, E, dim) == comps

\* prepare_models, lines 300-301 (309-310): with fewer components than
\* hyperparameters, the list is replaced by one identity component
Components(comps, E, dim) ==
  IF Len(comps) < E[1] THEN <<Square(dim)>> ELSE comps

\* prepare_models, lines 298-302 (307-311): with more components than
\* hyperparameters the first hyperparameter is given to every component, with
\* fewer only the first is kept
Expectation(comps, E) ==
  IF Len(comps) > E[1] THEN <<Len(comps), 1>>
  ELSE IF Len(comps) < E[1] THEN <<1, 1>>
  ELSE E

\* prepare_models, line 305 (314): np.eye(len(Q)) * hC[0] for nQ components;
\* val "IndexError" when hC has no first entry, "ValueError" when its first
\* entry cannot be multiplied with the identity
Rebuilt(nQ, C) ==
  LET row == Tail(C.shape)
  IN  IF C.shape = <<>> \/ C.shape[1] = 0
        THEN [shape |-> NoShape, val |-> "IndexError"]
      ELSE IF ~Broadcasts(Square(nQ), row)
        THEN [shape |-> NoShape, val |-> "ValueError"]
      ELSE IF row = <<>> \/ row = <<1>>
        THEN [shape |-> Square(nQ), val |-> "identity"]
      ELSE IF nQ = 1 THEN [shape |-> <<1, row[1]>>, val |-> "row"]
      ELSE [shape |-> Square(nQ), val |-> "diag"]

\* prepare_models, lines 298-305 (307-314) for the components comps, the
\* column E and the covariance C of one kind of noise on a level where the
\* noise has dim entries: the three as the code leaves them, and the error
\* raised if any
Reconcile(comps, E, C, dim) ==
  LET Q1 == Components(comps, E, dim)
      E1 == Expectation(comps, E)
      C1 == IF E1[1] > Prod(C.shape) THEN Rebuilt(Len(Q1), C) ELSE C
  IN  IF Len(comps) > E[1] /\ E[1] = 0
        THEN [comps |-> comps, E |-> E, C |-> C, error |-> "IndexError"]
      ELSE IF C1.shape = NoShape
        THEN [comps |-> Q1, E |-> E1, C |-> C, error |-> C1.val]
      ELSE [comps |-> Q1, E |-> E1, C |-> C1, error |-> "none"]

\* prepare_models, lines 272-328 for one level: the level as the code leaves
\* it and the error raised if any
FinishLevel(L) ==
  LET hE0 == Column(L.hE, ListOf(L.Q))
      gE0 == Column(L.gE, ListOf(L.R))
      L0  == [L EXCEPT !.Q = ListOf(@), !.R = ListOf(@), !.hE = hE0, !.gE = gE0,
                       !.hC = Covariance(@, hE0), !.gC = Covariance(@, gE0)]
      q   == Reconcile(L0.Q, L0.hE, L0.hC, L.l)
      L1  == [L0 EXCEPT !.Q = q.comps, !.hE = q.E, !.hC = q.C]
      r   == Reconcile(L0.R, L0.gE, L0.gC, L.n)
      L2  == [L1 EXCEPT !.R = r.comps, !.gE = r.E, !.gC = r.C]
  IN  IF q.error # "none" THEN [L |-> L1, error |-> q.error]
      ELSE IF r.error # "none" THEN [L |-> L2, error |-> r.error]
      ELSE [L |-> L2, error |-> IF WrongComponent(L2) THEN "ValueError" ELSE "none"]

\* prepare_models, lines 264-359: the loop over the levels that fills in the
\* component lists, hyperpriors, fixed precisions and smoothness, and checks
\* the components; it stops at the first level that raises
PrepFinish ==
  /\ pc = "p_finish"
  /\ LET bad   == {k \in 1..Len(M) : FinishLevel(M[k]).error # "none"}
         reach == IF bad = {} THEN Len(M)
                  ELSE CHOOSE k \in bad : \A j \in bad : k <= j
     IN  /\ M' = [k \in 1..Len(M) |->
                   IF k <= reach THEN FinishLevel(M[k]).L ELSE M[k]]
         /\ IF bad = {} THEN pc' = "prepared" /\ trail' = trail
            ELSE RaiseInPrep(FinishLevel(M[reach]).error)
  /\ UNCHANGED <<i, vRows, engine, history, library, frames, args>> /\ UNCHANGED runLocals

InitPrep ==
  /\ M \in UserModels
  /\ engine = None
  /\ pc = "p_top"
  /\ args = NoArgs
  /\ F = <<>> /\ A = <<>> /\ Fi = None /\ Li = None /\ Ai = None
  /\ te = None /\ tm = None /\ iE = None /\ iM = None
  /\ nE = None /\ nM = None /\ nh = None /\ nf = None
  /\ qp = None /\ qh = None /\ pp = None /\ B = None /\ dp = None
  /\ trail = NewTrail("prepare", M)
  /\ i = None /\ vRows = None
  /\ qU = <<>> /\ qE = <<>> /\ ph = None /\ Qlib = <<>>
  /\ gen = None /\ gc = None /\ de = None

NextPrep ==
  \/ PrepTop
  \/ PrepLevel
  \/ PrepInputs
  \/ PrepCheck
  \/ PrepPriors
  \/ PrepFinish

SpecPrep == InitPrep /\ [][NextPrep]_vars

\* ======================================================= dem_eval_err_diff
\* largest embedding order n, number of hidden states nx and number of
\* outputs ne the prediction errors are evaluated for
MaxOrder == 5
MaxStates == 2
MaxOut == 2

\* A block of the error vector: the errors on the causes ("v") or on the
\* hidden states ("x") of one generalized order, its size, and whether it
\* was set to zeros.
Block(kind, order, size, zero) ==
  [kind |-> kind, order |-> order, size |-> size, zero |-> zero]

\* dem_eval_err_diff is entered with the embedding order n of the engine on
\* a hierarchy with nx hidden states and ne outputs over all levels
ErrInputs == [n : 1..MaxOrder, nx : 0..MaxStates, ne : 1..MaxOut]

\* the local variables of the function: the inputs, the lists Ev and Ex, the
\* loop variable Exi ("unbound" until the loop has assigned it), the result E
ErrFrame(a) ==
  [n |-> a.n, nx |-> a.nx, ne |-> a.ne, Ev |-> <<>>, Ex |-> <<>>,
   Exi |-> "unbound", E |-> <<>>]

RaiseInErr(e) ==
  /\ pc' = "raised"
  /\ trail' = [trail EXCEPT !.error = e]

\* dem_eval_err_diff, lines 183-186: the errors on the causes, order 0 from
\* y, v, g and u, the orders 1 to n - 1 from the derivatives
ErrCauses ==
  /\ pc = "e_causes"
  /\ de' = [de EXCEPT !.Ev = [k \in 1..de.n |-> Block("v", k - 1, de.ne, FALSE)]]
  /\ pc' = "e_first"
  /\ UNCHANGED <<i, vRows, M, engine, history, library, gen, gc, args, trail>>
  /\ UNCHANGED runLocals

\* dem_eval_err_diff, line 189: Ex = [qu.x[1] - f]; qu.x has n rows
ErrStatesFirst ==
  /\ pc = "e_first"
  /\ IF de.n < 2
       THEN /\ RaiseInErr("IndexError")
            /\ UNCHANGED <<de, i>>
       ELSE /\ de' = [de EXCEPT !.Ex = <<Block("x", 0, de.nx, FALSE)>>]
            /\ i' = 1
            /\ pc' = "e_next"
            /\ trail' = trail
  /\ UNCHANGED <<vRows, M, engine, history, library, gen, gc, args>>
  /\ UNCHANGED runLocals

\* dem_eval_err_diff, lines 190-192: one pass of for i in range(1, n - 1)
ErrStatesNext ==
  /\ pc = "e_next"
  /\ i < de.n - 1
  /\ de' = [de EXCEPT !.Ex = Append(@, Block("x", i, de.nx, FALSE)),
                      !.Exi = "bound"]
  /\ i' = i + 1
  /\ UNCHANGED <<pc, vRows, M, engine, history, library, gen, gc, args, trail>>
  /\ UNCHANGED runLocals

\* dem_eval_err_diff, line 193: Ex.append(np.zeros_like(Exi)), after the loop
ErrStatesLast ==
  /\ pc = "e_next"
  /\ ~(i < de.n - 1)
  /\ IF de.Exi = "unbound"
       THEN /\ RaiseInErr("UnboundLocalError")
            /\ de' = de
       ELSE /\ de' = [de EXCEPT !.Ex = Append(@, Block("x", Len(@), de.nx, TRUE))]
            /\ pc' = "e_concat"
            /\ trail' = trail
  /\ UNCHANGED <<i, vRows, M, engine, history, library, gen, gc, args>>
  /\ UNCHANGED runLocals

\* dem_eval_err_diff, lines 195-197: E is Ev followed by Ex
ErrConcat ==
  /\ pc = "e_concat"
  /\ de' = [de EXCEPT !.E = de.Ev \o de.Ex]
  /\ pc' = "returned"
  /\ UNCHANGED <<i, vRows, M, engine, history, library, gen, gc, args, trail>>
  /\ UNCHANGED runLocals

InitErr ==
  /\ M = <<>>
  /\ engine = None
  /\ pc = "e_causes"
  /\ args = NoArgs
  /\ F = <<>> /\ A = <<>> /\ Fi = None /\ Li = None /\ Ai = None
  /\ te = None /\ tm = None /\ iE = None /\ iM = None
  /\ nE = None /\ nM = None /\ nh = None /\ nf = None
  /\ qp = None /\ qh = None /\ pp = None /\ B = None /\ dp = None
  /\ trail = NewTrail("dem_eval_err_diff", <<>>)
  /\ i = None /\ vRows = None
  /\ qU = <<>> /\ qE = <<>> /\ ph = None /\ Qlib = <<>>
  /\ gen = None /\ gc = None
  /\ de \in {ErrFrame(a) : a \in ErrInputs}

NextErr ==
  \/ ErrCauses
  \/ ErrStatesFirst
  \/ ErrStatesNext
  \/ ErrStatesLast
  \/ ErrConcat

SpecErr == InitErr /\ [][NextErr]_vars

\* ================================================= generalized_coordinates
\* largest number of samples of a series that is embedded
MaxTimes == 6

\* np.fix of a half-integer a2 / 2: rounding towards zero
Fix2(a2) == IF a2 >= 0 THEN a2 \div 2 ELSE -((-a2) \div 2)

\* np.clip on one index
Clip(k, lo, hi) == IF k < lo THEN lo ELSE IF k > hi THEN hi ELSE k

\* generalized_coordinates, line 96: the shift of the window at timestep t
\* (1-based) for order p, int(np.fix(t - (p + 1) / 2))
Shift(t, p) == Fix2(2 * t - (p + 1))

\* (mutant) a window that does not fit is moved to the nearest window of p
\* consecutive samples
Window_NearestFull(t, p, n_times) ==
  LET first == Clip(1 + Shift(t, p), 1, IF n_times >= p THEN n_times - p + 1 ELSE 1)
  IN  [j \in 1..p |-> Clip(first + j - 1, 1, n_times)]

\* generalized_coordinates, lines 96-98: the sample indices (1-based) used at
\* timestep t: ks shifted, then every index clipped to 1..n_times
Window(t, p, n_times) == [j \in 1..p |-> Clip(j + Shift(t, p), 1, n_times)]

\* the series embedded: n_times samples, embedding order p
EmbedInputs == [n_times : 1..MaxTimes, p : 1..MaxOrder]

\* the local variables of the function: the inputs, the timestep t of the
\* loop, and for each timestep done the indices k of the samples X[t - 1]
\* was computed from
EmbedFrame(a) == [n_times |-> a.n_times, p |-> a.p, t |-> 1, k |-> <<>>]

\* generalized_coordinates, lines 95-109: one pass of for t in times
EmbedStep ==
  /\ pc = "c_loop"
  /\ gc.t <= gc.n_times
  /\ gc' = [gc EXCEPT !.k = Append(@, Window(gc.t, gc.p, gc.n_times)),
                      !.t = @ + 1]
  /\ UNCHANGED <<pc, i, vRows, M, engine, history, library, gen, de, args, trail>>
  /\ UNCHANGED runLocals

\* generalized_coordinates, line 111: return X
EmbedReturn ==
  /\ pc = "c_loop"
  /\ gc.t > gc.n_times
  /\ pc' = "returned"
  /\ UNCHANGED <<i, vRows, M, engine, history, library, frames, args, trail>>
  /\ UNCHANGED runLocals

InitEmbed ==
  /\ M = <<>>
  /\ engine = None
  /\ pc = "c_loop"
  /\ args = NoArgs
  /\ F = <<>> /\ A = <<>> /\ Fi = None /\ Li = None /\ Ai = None
  /\ te = None /\ tm = None /\ iE = None /\ iM = None
  /\ nE = None /\ nM = None /\ nh = None /\ nf = None
  /\ qp = None /\ qh = None /\ pp = None /\ B = None /\ dp = None
  /\ trail = NewTrail("generalized_coordinates", <<>>)
  /\ i = None /\ vRows = None
  /\ qU = <<>> /\ qE = <<>> /\ ph = None /\ Qlib = <<>>
  /\ gen = None /\ de = None
  /\ gc \in {EmbedFrame(a) : a \in EmbedInputs}

NextEmbed ==
  \/ EmbedStep
  \/ EmbedReturn

SpecEmbed == InitEmbed /\ [][NextEmbed]_vars

\* ======================================================= claims about run
InRun == trail.kind = "run"

\* IEEE a <= b
LE(a, b) == a # NaN /\ b # NaN /\ a <= b

\* C1: a call of run whose y does not have ny columns, or whose u is given
\* and does not have nc columns, raises ValueError, and at that point no
\* series has been embedded, no prediction error evaluated and no D-, E- or
\* M-step iteration executed.
C1_RejectsUpFront ==
  (InRun /\ (args.y_dim # engine.ny
             \/ (args.u_dim # None /\ args.u_dim # engine.nc)))
    => /\ pc = "raised"
       /\ trail.error = "ValueError"
       /\ trail.embeds = 0 /\ trail.evals = 0
       /\ trail.eIters = 0 /\ trail.mIters = 0

\* C1 witness: y is fine, u is given with the wrong width, and run has raised
C1_Witness ==
  /\ InRun /\ pc = "raised"
  /\ args.y_dim = engine.ny
  /\ args.u_dim # None /\ args.u_dim # engine.nc

\* The model has no precision component and no free parameter: no Q or R
\* component on any level, no non-zero prior variance on any non-terminal
\* level, no confound column.
NoHyperNoFree ==
  /\ \A k \in 1..Len(M) : Len(M[k].Q) + Len(M[k].R) = 0
  /\ \A k \in 1..(Len(M) - 1) : Rank(M[k].pC) = 0
  /\ args.nb = 0

\* C2: with no precision component and no free parameter, run has executed
\* exactly one outer iteration, with exactly one M iteration in it, when it
\* leaves the loop, whatever nE and nM were requested.
C2_SinglePass ==
  (InRun /\ pc \in {"post", "returned"} /\ NoHyperNoFree)
    => trail.eIters = 1 /\ trail.mIters = 1

\* C2 witness: such a call has returned although the largest budgets were asked
C2_Witness ==
  /\ InRun /\ pc = "returned" /\ NoHyperNoFree
  /\ args.nE = MaxNE /\ args.nM = MaxNM

\* C3: the trace F is non-decreasing across accepted outer iterations
C3_AcceptedTraceMonotone ==
  InRun =>
    \A k, j \in 1..Len(trail.accepted) :
      (k < j /\ trail.accepted[k] /\ trail.accepted[j]) => LE(F[k], F[j])

\* C3 witness: an accepted, a rejected and again an accepted iteration, the
\* last with a larger free energy than the first
C3_Witness ==
  /\ InRun /\ trail.accepted = <<TRUE, FALSE, TRUE>>
  /\ F[1] # NaN /\ F[3] > F[1]

\* C7: when run returns after k outer iterations, both traces have the
\* requested length nE, the entry of the last executed iteration holds the
\* values recorded for it, and every entry from k on still holds the sentinel.
C7_UnfilledEntriesKeepSentinel ==
  (InRun /\ pc = "returned")
    => /\ Len(F) = args.nE /\ Len(A) = args.nE
       /\ trail.eIters = iE + 1
       /\ trail.eIters \in 1..args.nE
       /\ F[trail.eIters] = Fi /\ A[trail.eIters] = Ai
       /\ \A k \in 1..args.nE : k > trail.eIters => F[k] = NaN /\ A[k] = NaN

\* C7 witness: run returned on convergence after two of three iterations,
\* both entries written with proper numbers, the third still the sentinel
C7_Witness ==
  /\ InRun /\ pc = "returned"
  /\ args.nE = 3 /\ nE = 3 /\ trail.eIters = 2
  /\ F[1] # NaN /\ F[2] # NaN /\ A[1] # NaN /\ A[2] # NaN
  /\ F[3] = NaN /\ A[3] = NaN

\* C8 as stated: after each executed outer iteration F[iE] is the free energy
\* Li and A[iE] the free action Ai evaluated in that iteration, accepted or not
C8_AsStated ==
  (InRun /\ pc = "converge") => F[iE + 1] = Li /\ A[iE + 1] = Ai

\* C8 amended: after each executed outer iteration F[iE] is Fi, the best
\* accepted free energy so far (which is Li when the iteration was accepted
\* and the value of the last accepted iteration when it was rejected), and
\* A[iE] is the free action Ai evaluated in that iteration.
C8_TraceHoldsBestAccepted ==
  (InRun /\ pc = "converge")
    => /\ F[iE + 1] = Fi
       /\ A[iE + 1] = Ai
       /\ trail.accepted[iE + 1] => Fi = Li
       /\ (~trail.accepted[iE + 1]) => F[iE + 1] = F[iE]

\* C8 witness: a rejected iteration whose Li differs from what F received
C8_Witness ==
  /\ InRun /\ pc = "converge"
  /\ ~trail.accepted[iE + 1]
  /\ Li # NaN /\ Li # F[iE + 1]

EndsIteration == pc = "eval" /\ pc' = "converge"

WasAccepted(t) == t.accepted[Len(t.accepted)]

\* C15 as stated: an outer iteration is accepted exactly when Li is greater
\* than the best accepted free energy so far or iE is 0 or 1
C15_AsStated ==
  [][EndsIteration => (WasAccepted(trail') <=> (GT(Li', Fi) \/ iE < 2))]_vars

\* C15 amended: an outer iteration is accepted exactly when Li is greater
\* than the best accepted free energy so far or it is the first iteration
\* (iE = 0); in every other case it is rejected.
C15_AcceptedIffBetterOrFirst ==
  [][EndsIteration => (WasAccepted(trail') <=> (GT(Li', Fi) \/ iE < 1))]_vars

\* C15 witness: the second iteration (iE = 1) evaluated a free energy not
\* above the best one and has been rejected
C15_Witness ==
  /\ InRun /\ pc = "converge" /\ iE = 1
  /\ trail.accepted = <<TRUE, FALSE>>
  /\ Li # NaN /\ Fi # NaN /\ Li <= Fi

\* C16 as stated: on a rejected iteration te and tm each become
\* max(previous - 2, -2)
C16_AsStated ==
  [][(EndsIteration /\ ~WasAccepted(trail'))
       => /\ te' = (IF te - 4 > -4 THEN te - 4 ELSE -4)
          /\ tm' = (IF tm - 4 > -4 THEN tm - 4 ELSE -4)]_vars

\* C16 amended: on a rejected iteration te and tm each become
\* min(previous - 2, -2): at most -2 after the rejection, and 2 lower than
\* before whenever the previous value was already at most 0.
C16_LoweredToAtMostMinusTwo ==
  [][(EndsIteration /\ ~WasAccepted(trail'))
       => /\ te' = Min(te - 4, -4) /\ tm' = Min(tm - 4, -4)
          /\ te' <= -4 /\ tm' <= -4
          /\ te <= 0 => te' = te - 4
          /\ tm <= 0 => tm' = tm - 4]_vars

\* C16 witness: two rejections in a row have taken te from 1/2 to -4
C16_Witness ==
  /\ InRun /\ pc = "converge"
  /\ trail.accepted = <<TRUE, FALSE, FALSE>>
  /\ te = -8 /\ tm = -8

\* C17: when te is below -8 at the end of an outer iteration the loop is
\* left, so no D-, M- or E-step is ever executed with te below -8.
C17_CollapseStopsLoop ==
  [][ /\ (pc = "converge" /\ te < -16) => (pc' = "post" /\ iE' = iE)
      /\ pc' \in {"D", "M", "eval"} => te' >= -16 ]_vars

\* C17 witness: the loop was left with te below -8 and iterations remaining
C17_Witness ==
  /\ InRun /\ pc = "post"
  /\ te < -16 /\ iE + 1 < nE

\* C18: the loop starts with te = 0 and tm = 4, an accepted iteration makes
\* each min(previous + 1/2, 4), and neither ever exceeds 4.
C18_RaisedUpToFour ==
  [][ /\ (pc = "setup" /\ pc' = "D") => (te' = 0 /\ tm' = 8)
      /\ (EndsIteration /\ WasAccepted(trail'))
           => (te' = Min(te + 1, 8) /\ tm' = Min(tm + 1, 8))
      /\ te' <= 8 /\ tm' <= 8 ]_vars

\* C18 witness: two accepted iterations, te at 1 and tm held at 4
C18_Witness ==
  /\ InRun /\ pc = "converge"
  /\ trail.accepted = <<TRUE, TRUE>>
  /\ te = 2 /\ tm = 8

\* C19: in an outer iteration that follows a rejected one of the same call
\* the M loop has run exactly once when the free energy is evaluated.
C19_OneMStepAfterRejection ==
  (InRun /\ pc = "eval" /\ \E k \in 1..Len(trail.accepted) : ~trail.accepted[k])
    => trail.mIters = 1

\* C19 witness: hyperparameters present, the largest M budget requested, an
\* earlier iteration rejected, and this iteration has made one M iteration
C19_Witness ==
  /\ InRun /\ pc = "eval"
  /\ nh > 0 /\ args.nM = MaxNM
  /\ trail.accepted = <<TRUE, FALSE>>
  /\ trail.mIters = 1

\* C20: right after a rejected outer iteration the arrays of qp, qh and pp
\* have the contents they had when the expansion point was saved at the most
\* recent accepted iteration, the saved copy B itself still has those
\* contents, and the parameter step dp is zero.
C20_RestoredToCheckpoint ==
  (InRun /\ pc = "converge" /\ ~WasAccepted(trail))
    => /\ Arrays(qp) = trail.saved.qp
       /\ Arrays(qh) = trail.saved.qh
       /\ Arrays(pp) = trail.saved.pp
       /\ B = trail.saved
       /\ dp = 0

\* C20 witness: with hyperparameters present, two accepted iterations and a
\* rejected one; qp is back at what the second iteration saved
C20_Witness ==
  /\ InRun /\ pc = "converge" /\ nh > 0
  /\ trail.accepted = <<TRUE, TRUE, FALSE>>
  /\ qp.ic = 21 /\ qp.e = 1 /\ qh.h = 20 /\ dp = 0

\* ============================================ claims about prepare_models
InPrep == trail.kind = "prepare"

\* a level that declares an observation map and no state map
OnlyObservationMap(L) ==
  /\ ~Callable(L.f) /\ ~Callable(L.fsymb)
  /\ (Callable(L.g) \/ Callable(L.gsymb))

\* C4: a single descriptor with only an observation map is prepared into
\* exactly two levels; the appended top level has n = m = p = 0 and its l is
\* the first level's cause dimension m: the declared one when m was declared,
\* and in any case the one the first level ends with.
C4_TopLevelAppended ==
  (InPrep /\ pc = "prepared" /\ Len(trail.M0) = 1
          /\ OnlyObservationMap(trail.M0[1]))
    => /\ Len(M) = 2
       /\ M[2].n = 0 /\ M[2].m = 0 /\ M[2].p = 0
       /\ M[2].l = M[1].m
       /\ trail.M0[1].m # None => M[2].l = trail.M0[1].m
       /\ trail.M0[1].m = None => M[2].l = 0

\* C4 witness: such a descriptor, declaring two causes, has been prepared
C4_Witness ==
  /\ InPrep /\ pc = "prepared" /\ Len(trail.M0) = 1
  /\ OnlyObservationMap(trail.M0[1])
  /\ trail.M0[1].m = 2 /\ Len(M) = 2 /\ M[2].l = 2

\* C5 as stated: after preparation the last level has n = 0, m = 0 and
\* p = 0, whether it was appended or supplied by the user
C5_AsStated ==
  (InPrep /\ pc = "prepared")
    => M[Len(M)].n = 0 /\ M[Len(M)].m = 0 /\ M[Len(M)].p = 0

\* C6: after preparation has succeeded the cause dimension m of every level
\* equals the output dimension l of the level above it, and a declaration of
\* m or l on a non-terminal level that the inferred value contradicts has
\* been warned about and overridden.
C6_ChainConsistent ==
  (InPrep /\ pc = "prepared")
    => \A k \in 1..(Len(M) - 1) :
         /\ M[k].m = M[k + 1].l
         /\ (trail.M0[k].m \notin {None, M[k].m}) => <<k, "m">> \in trail.warned
         /\ (trail.M0[k].l \notin {None, M[k].l}) => <<k, "l">> \in trail.warned

\* C6 witness: the first of two supplied levels declared one cause, the
\* level above returned two rows; preparation succeeded with a warning
C6_Witness ==
  /\ InPrep /\ pc = "prepared" /\ Len(M) = 3
  /\ trail.M0[1].m = 1 /\ M[1].m = 2 /\ M[2].l = 2
  /\ <<1, "m">> \in trail.warned

\* a level that declares a state map, native or symbolic, but neither n nor x
StateMapWithoutStates(L) ==
  /\ (Callable(L.f) \/ Callable(L.fsymb))
  /\ L.n = None /\ L.x = None

\* C10 as stated: when some supplied level declares a state map but neither
\* n nor x, preparation ends with a ValueError and no map of any level has
\* been evaluated before it
C10_AsStated ==
  (InPrep /\ pc \in {"prepared", "raised"}
          /\ \E k \in 1..Len(trail.M0) : StateMapWithoutStates(trail.M0[k]))
    => /\ pc = "raised"
       /\ trail.error = "ValueError"
       /\ trail.probed = <<>>

\* a level that declares one of its maps twice, natively and symbolically
DeclaredTwice(L) ==
  \/ Callable(L.f) /\ Callable(L.fsymb)
  \/ Callable(L.g) /\ Callable(L.gsymb)

\* C11 as stated: when some supplied level gives both a native and a
\* symbolic form of the same map (f with fsymb, or g with gsymb), preparation
\* raises an error and produces no hierarchy
C11_AsStated ==
  (InPrep /\ pc \in {"prepared", "raised"}
          /\ \E k \in 1..Len(trail.M0) : DeclaredTwice(trail.M0[k]))
    => pc = "raised"

\* the length pE declares: its rows, one dimension or two
DeclaredLength(L) == ColumnOf(L.pE)[1]

\* a pC given as a vector or a matrix whose size is not that of pE
PriorsDisagree(L) ==
  /\ L.pCs # NoShape /\ L.pCs # <<>>
  /\ \E k \in 1..Len(L.pCs) : L.pCs[k] # DeclaredLength(L)

\* C12 as stated: after preparation has succeeded every level has pE of
\* shape (p,1) and pC of shape (p,p), whatever form pE (absent, one or two
\* dimensions) and pC (absent, scalar, vector, matrix) were given in; and a
\* pC whose size disagrees with pE makes preparation raise
C12_AsStated ==
  /\ (InPrep /\ pc = "prepared")
       => \A k \in 1..Len(M) :
            M[k].pE = <<M[k].nP, 1>> /\ M[k].pCs = Square(M[k].nP)
  /\ (InPrep /\ pc \in {"prepared", "raised"}
             /\ \E k \in 1..Len(trail.M0) : PriorsDisagree(trail.M0[k]))
       => pc = "raised"

\* C13 as stated: preparation succeeds only if every component of Q is an
\* l-by-l matrix and every component of R an n-by-n matrix on its level: a
\* component with another number of rows or of columns makes it raise
C13_AsStated ==
  (InPrep /\ pc = "prepared")
    => \A k \in 1..Len(M) :
         /\ \A j \in 1..Len(M[k].Q) : M[k].Q[j] = Square(M[k].l)
         /\ \A j \in 1..Len(M[k].R) : M[k].R[j] = Square(M[k].n)

\* C14 as stated: after preparation has succeeded the xP and vP of every
\* supplied level are n-by-n matrices: zeros when unset, the identity times
\* a single value, the diagonal matrix of a vector of length n, the values
\* of an n-by-n matrix as the user gave them; any other input made
\* preparation raise
C14_AsStated ==
  LET Described(P, n) ==
        IF P.shape = NoShape THEN Matrix(Square(n), "zeros")
        ELSE IF Len(P.shape) <= 1 /\ Prod(P.shape) = 1
          THEN Matrix(Square(n), "identity")
        ELSE IF Len(P.shape) = 1 /\ P.shape[1] = n
          THEN Matrix(Square(n), "diag")
        ELSE IF P.shape = Square(n) THEN Matrix(Square(n), P.val)
        ELSE [shape |-> NoShape, val |-> "ValueError"]
  IN  (InPrep /\ pc = "prepared")
        => \A k \in 1..Len(trail.M0) :
             /\ M[k].xP = Described(trail.M0[k].xP, M[k].n)
             /\ M[k].vP = Described(trail.M0[k].vP, M[k].n)

\* ============================== claims about run: parameters and sweeps
\* the positions of run at which qp holds the parameter estimates
Estimating == InRun /\ pc \in {"D", "M", "eval", "converge", "post", "returned"}

\* C21 as stated: whenever run holds parameter estimates, after every
\* accepted update included, qp.p[k] of each non-terminal level k is that
\* level's segment of qp.e, as long as the level's reduced dimension, and
\* the segments concatenated in level order give qp.e
C21_AsStated ==
  Estimating
    => /\ \A k \in 1..(Len(M) - 1) : qp.p[k] = LevelSegment(k, M[k].p)
       /\ Concatenate(qp.p) = qp.eDir

\* =================================== claims about dem_eval_err_diff
InErr == trail.kind = "dem_eval_err_diff"

\* C22 as stated: for every embedding order n >= 1 the evaluation of the
\* prediction errors does not fail and returns n blocks of errors on the
\* causes, one per order and each as long as the outputs, followed by n
\* blocks of errors on the states, each nx long, the last of them zeros
C22_AsStated ==
  (InErr /\ pc \in {"returned", "raised"})
    => /\ pc = "returned"
       /\ Len(de.E) = 2 * de.n
       /\ \A k \in 1..de.n :
            /\ de.E[k].kind = "v" /\ de.E[k].order = k - 1 /\ de.E[k].size = de.ne
            /\ de.E[de.n + k].kind = "x" /\ de.E[de.n + k].order = k - 1
            /\ de.E[de.n + k].size = de.nx
       /\ de.E[2 * de.n].zero

\* ============================== claims about generalized_coordinates
InEmbed == trail.kind = "generalized_coordinates"

\* C23 as stated: at every timestep the window has `order` sample indices,
\* all inside the series, and they are distinct consecutive indices (near
\* the ends the nearest full window): no index is repeated in a window
C23_AsStated ==
  InEmbed
    => \A t \in 1..Len(gc.k) :
         /\ Len(gc.k[t]) = gc.p
         /\ \A j \in 1..gc.p : gc.k[t][j] \in 1..gc.n_times
         /\ \A j \in 1..(gc.p - 1) : gc.k[t][j + 1] = gc.k[t][j] + 1

\* C23: at every timestep the window has `order` sample indices, all inside
\* the series.  The window is centred on the timestep; an index of the
\* centred window that falls before the first sample is replaced by the
\* first sample and one that falls after the last sample by the last, so a
\* window near the ends repeats the boundary sample, and the part of the
\* centred window that lies inside the series is used as it is.
C23_IndicesClippedToSeries ==
  InEmbed
    => \A t \in 1..Len(gc.k) :
         /\ Len(gc.k[t]) = gc.p
         /\ \A j \in 1..gc.p :
              LET centred == j + Shift(t, gc.p)
              IN  /\ gc.k[t][j] \in 1..gc.n_times
                  /\ centred < 1 => gc.k[t][j] = 1
                  /\ centred > gc.n_times => gc.k[t][j] = gc.n_times
                  /\ centred \in 1..gc.n_times => gc.k[t][j] = centred

\* C23 witness: a series of four samples embedded with order three; the
\* first window repeats the first sample and the last repeats the last
C23_Witness ==
  /\ InEmbed /\ pc = "returned"
  /\ gc.n_times = 4 /\ gc.p = 3
  /\ gc.k[1] = <<1, 1, 2>> /\ gc.k[2] = <<1, 2, 3>> /\ gc.k[4] = <<3, 4, 4>>

\* the positions of run after the sweep of the current outer iteration
Swept == InRun /\ pc \in {"M", "eval", "converge", "post", "returned"}

\* C24 as stated: in each outer iteration a dynamic model (nx > 0) makes
\* exactly nD D-step updates at every timestep, a static model (nx = 0)
\* exactly one whatever nD is, starting from the states saved for the
\* timestep
C24_AsStated ==
  Swept
    => \A t \in 1..args.nT :
         /\ engine.nx > 0 => trail.dsteps[t] = args.nD
         /\ engine.nx = 0 => trail.dsteps[t] = 1

\* C30: once the sweep of an outer iteration is done, and up to the return
\* of run, qU and qE have exactly one entry per timestep, each written at the
\* first D sub-step of its timestep in the last outer iteration executed;
\* a rejection leaves them alone, so when the last iteration executed was
\* rejected they are the ones of that rejected iteration.
C30_HistoryOfLastIteration ==
  Swept
    => /\ Len(qU) = args.nT /\ Len(qE) = args.nT
       /\ \A t \in 1..args.nT :
            /\ qU[t].iE = iE /\ qU[t].iD = 0
            /\ qE[t].iE = iE /\ qE[t].iD = 0

\* C30 witness: run returns after a first, accepted, and a second, rejected,
\* outer iteration; the history is the one of the second
C30_Witness ==
  /\ InRun /\ pc = "returned"
  /\ trail.accepted = <<TRUE, FALSE>>
  /\ Len(qU) = 2 /\ qU[1].iE = 1 /\ qU[2].iE = 1 /\ qE[2].iE = 1

\* C28 as stated: in run the hyperparameter at position k of the
\* hyperparameter vector and the component at position k of the library
\* belong to the same level and the same noise channel (Q with hE, R with
\* gE), whatever the number of levels and the mix of Q and R components
C28_AsStated ==
  Estimating
    => /\ Len(ph.h) = Len(Qlib)
       /\ \A k \in 1..Len(Qlib) :
            Qlib[k][1] = ph.h[k][1] /\ Qlib[k][2] = ph.h[k][2]

\* ============================================== claims about generate
InGen == trail.kind = "generate" /\ pc \in {"g_top", "g_level", "g_save", "returned"}

\* C25: in generate the levels of a timestep are processed from the coarsest
\* to the finest: the top level's order-zero cause is set to its noise
\* first, a non-terminal level k is evaluated only when the cause of level
\* k + 1 has been set in the same timestep, and the cause recorded for level
\* k at a timestep is g_k(x_k, v_(k+1)) plus the level's noise with v_(k+1)
\* of that timestep.
C25_CoarsestToFinest ==
  InGen
    => /\ pc = "g_level"
            => /\ gen.v[Len(M)] = Cause(gen.t, "noise", None)
               /\ gen.v[LevelOrder(Len(M))[gen.j] + 1].t = gen.t
       /\ \A t \in 1..Len(gen.V) :
            /\ gen.V[t][Len(M)] = Cause(t - 1, "noise", None)
            /\ \A k \in 1..(Len(M) - 1) : gen.V[t][k] = Cause(t - 1, "g", t - 1)

\* C25 witness: generate has returned two timesteps of a hierarchy of three
\* levels
C25_Witness ==
  /\ InGen /\ pc = "returned" /\ Len(M) = 3 /\ Len(gen.V) = 2
  /\ gen.V[2][3] = Cause(1, "noise", None)
  /\ gen.V[2][2] = Cause(1, "g", 1) /\ gen.V[2][1] = Cause(1, "g", 1)

\* C29 as stated: in generate the concatenated flow f lists the levels in
\* the same ascending order as the concatenated states x and state noise w,
\* so the order-one state of every level is set from the flow and the state
\* noise of that same level
C29_AsStated ==
  InGen
    => \A t \in 1..Len(gen.X) :
         \A c \in 1..Len(gen.X[t]) :
           gen.X[t][c].f = gen.X[t][c].x /\ gen.X[t][c].w = gen.X[t][c].x

\* C26: after preparation has succeeded, every level has as many cause-noise
\* components as cause-noise hyperparameters (len(Q) = size of hE) and as
\* many state-noise components as state-noise hyperparameters (len(R) = size
\* of gE), whatever component lists and expectations were declared
C26_ComponentsMatchHyperparameters ==
  (InPrep /\ pc = "prepared")
    => \A k \in 1..Len(M) :
         /\ Len(M[k].Q) = M[k].hE[1]
         /\ Len(M[k].R) = M[k].gE[1]

\* two components were declared with a single hyperparameter, which has been
\* given to both
C26_Witness ==
  /\ InPrep /\ pc = "prepared"
  /\ Len(trail.M0[1].Q) = 2 /\ trail.M0[1].hE = <<1>>
  /\ Len(M[1].Q) = 2 /\ M[1].hE = <<2, 1>>

\* C27 as stated: after preparation has succeeded, hC is a square matrix
\* with one row per cause-noise hyperparameter and gC one with one row per
\* state-noise hyperparameter, on every level; a covariance that was absent
\* is the identity of that size, also when the hyperparameters were
\* shortened or broadcast
C27_AsStated ==
  (InPrep /\ pc = "prepared")
    => \A k \in 1..Len(M) :
         /\ M[k].hC.shape = Square(M[k].hE[1])
         /\ M[k].gC.shape = Square(M[k].gE[1])
         /\ (k <= Len(trail.M0) /\ trail.M0[k].hC = NoPrecision)
              => M[k].hC.val = "identity"
         /\ (k <= Len(trail.M0) /\ trail.M0[k].gC = NoPrecision)
              => M[k].gC.val = "identity"

====
